---- MODULE Spec2Model ----
(***************************************************************************)
(* Model of src/router/ai/optimizer.py: the RouteOptimizer object (its     *)
(* RouteGNN scorer with the training/inference flag and the parameters),   *)
(* the graph builder, the selector, train_step and the train loop.         *)
(*                                                                         *)
(* Numbers.  Feature values are fixed-point integers in units of 1e-6.     *)
(* ModelParameters are abstracted to a version number: RandomInit is the   *)
(* freshly constructed network, every optimizer.step() yields the next     *)
(* version.  The network output is an integer function of the version,     *)
(* the node features and the edge index; dropout in training mode adds a   *)
(* nondeterministically chosen mask to it.                                 *)
(***************************************************************************)
EXTENDS Integers, Sequences, FiniteSets, TLC

VARIABLES
    mode,        \* self.model.training: "train" or "eval"
    params,      \* self.model parameters (version number)
    checkpoint,  \* the checkpoint file: {} when absent, {p} when it holds p
    pc,          \* "idle", or "train" while the train loop is running
    fit,         \* position of the running train loop
    applied,     \* optimizer.step() calls of the current train call, in order
    op,          \* the operation that ran last
    arg,         \* its input
    result,      \* what it returned or raised
    calls,       \* forward passes self.model(...) it started
    fwd,         \* the modes those forward passes ran in
    pre,         \* mode and params when it was entered
    lastScore,   \* the last score_route result, while the parameters stay put
    prevScore    \* lastScore as score_route found it

vars == <<mode, params, checkpoint, pc, fit, applied, op, arg, result, calls,
          fwd, pre, lastScore, prevScore>>

----------------------------------------------------------------------------
(* Bounds of the model *)

MaxHops == 2         \* hops per route handed to the graph builder
MaxCand == 3         \* candidate routes per optimize_route call
MaxGraphs == 2       \* graphs per train_step call
MaxLabels == 3       \* labels per train_step call
MaxData == 33        \* examples per train call
MaxEpochs == 2       \* epochs per train call
MaxParam == 4        \* parameter versions reached by training
MaxDrop == 1         \* dropout masks drawn in training mode

(* Program constants *)

batch_size == 32
node_features == 16
Unit == 1000000      \* fixed-point scale of the feature values
RandomInit == 0      \* parameters of a freshly constructed RouteGNN
Pretrained == 1      \* parameters held by a checkpoint written earlier

----------------------------------------------------------------------------
(* Chain names and their lexicographic order (Python str comparison) *)

Codes ==
    [ ethereum |-> <<101, 116, 104, 101, 114, 101, 117, 109>>,
      sentium  |-> <<115, 101, 110, 116, 105, 117, 109>>,
      solana   |-> <<115, 111, 108, 97, 110, 97>> ]

Chains == DOMAIN Codes

Min(a, b) == IF a <= b THEN a ELSE b

RECURSIVE SeqLess(_, _)
SeqLess(s, t) ==
    IF s = <<>> THEN t # <<>>
    ELSE IF t = <<>> THEN FALSE
    ELSE IF Head(s) # Head(t) THEN Head(s) < Head(t)
    ELSE SeqLess(Tail(s), Tail(t))

StrLess(a, b) == SeqLess(Codes[a], Codes[b])

(* sorted(list(chains)), line 147: the element at position i is the one
   with i - 1 smaller elements *)
SortedDescending(S) ==
    [i \in 1..Cardinality(S) |->
        CHOOSE c \in S : Cardinality({d \in S : StrLess(c, d)}) = i - 1]

sorted(S) ==
    [i \in 1..Cardinality(S) |->
        CHOOSE c \in S : Cardinality({d \in S : StrLess(d, c)}) = i - 1]

(* self.chain_metadata, lines 88-94 (reliability in units of 1e-6) *)
chain_metadata ==
    [ ethereum |-> [id |-> 0, avg_latency |-> 15000, avg_cost |-> 50000,
                    reliability |-> 990000],
      sentium  |-> [id |-> 4, avg_latency |-> 500, avg_cost |-> 10000,
                    reliability |-> 990000] ]

(* encode_chain, lines 108-129 *)
encode_chain(chain_name) ==
    IF chain_name \notin DOMAIN chain_metadata
    THEN [k \in 0..(node_features - 1) |-> 0]
    ELSE LET meta == chain_metadata[chain_name] IN
         [k \in 0..(node_features - 1) |->
            IF k = 4 + meta.id THEN Unit
            ELSE IF k = 0 THEN (meta.id * Unit) \div 10
            ELSE IF k = 1 THEN meta.avg_latency
            ELSE IF k = 2 THEN meta.avg_cost * 10
            ELSE IF k = 3 THEN meta.reliability
            ELSE 0]

bridge_types == <<"Native", "Wrapped", "Liquidity", "Relay">>

(* lines 176-178 *)
bridge_onehot(bridge_type) ==
    [k \in 1..Len(bridge_types) |-> IF bridge_types[k] = bridge_type THEN 1 ELSE 0]

(* index of a chain in the sorted list, 0-based as in chain_to_idx, line 148 *)
chain_to_idx(chains, chain) ==
    (CHOOSE i \in 1..Len(chains) : chains[i] = chain) - 1

(* the set of chains of lines 142-145 *)
RouteChains(hops) ==
    {hops[i].from_chain : i \in 1..Len(hops)} \cup {hops[i].to_chain : i \in 1..Len(hops)}

(* a route dict without its 'hops' key makes line 139 raise KeyError *)
BuildRaises(route) == "hops" \notin DOMAIN route

(* create_graph_from_route, lines 139-186.  edge_index is the transposed
   tensor of line 183: two rows for a route with hops, the empty 1-D tensor
   for a route without.  The Data object holds x, edge_index and edge_attr;
   chains names the chain of each node index. *)
create_graph_from_route(route) ==
    LET hops == route.hops
        chains == sorted(RouteChains(hops))
        E == Len(hops)
    IN [ chains |-> chains,
         x |-> [n \in 1..Len(chains) |-> encode_chain(chains[n])],
         edge_index |->
            IF E = 0 THEN <<>>
            ELSE << [i \in 1..E |-> chain_to_idx(chains, hops[i].from_chain)],
                    [i \in 1..E |-> chain_to_idx(chains, hops[i].to_chain)] >>,
         edge_attr |->
            [i \in 1..E |-> << hops[i].cost * 10, hops[i].time_ms >>
                             \o bridge_onehot(hops[i].bridge_type)] ]

----------------------------------------------------------------------------
(* RouteGNN *)

RECURSIVE SumSeq(_)
SumSeq(s) == IF s = <<>> THEN 0 ELSE Head(s) + SumSeq(Tail(s))

(* what the three GCNConv layers and the mean pooling see of a graph: the
   node features x and the connectivity edge_index (edge_attr is passed to
   forward but never read, lines 51-63) *)
GraphSig(graph) ==
    LET N == Len(graph.x)
        E == Len(graph.edge_index[1])
    IN SumSeq([n \in 1..N |-> 1 + graph.x[n][0] \div 100000 + graph.x[n][3] \div 990000])
       + SumSeq([i \in 1..E |-> 1 + graph.edge_index[1][i] + 2 * graph.edge_index[2][i]])

(* self.dropout, line 37: the identity in inference mode, a random mask in
   training mode *)
Masks(m) == IF m = "train" THEN 0..MaxDrop ELSE {0}

dropout(v, m, mask) == IF m = "train" THEN v + mask ELSE v

(* a graph without nodes has the 1-D empty tensor for x, which conv1 cannot
   take (line 51) *)
ForwardRaises(graph) == Len(graph.x) = 0

(* RouteGNN.forward on one graph, lines 39-72 *)
forward(p, graph, m, mask) == dropout((p + 1) * GraphSig(graph), m, mask)

(* optimizer.step(), line 291 *)
AdamStep(p) == p + 1

----------------------------------------------------------------------------
(* Inputs *)

Hop(f, t, b, c, ms) ==
    [from_chain |-> f, to_chain |-> t, bridge_type |-> b, cost |-> c, time_ms |-> ms]

Route(hops) == [hops |-> hops]

r_direct == Route(<<Hop("ethereum", "sentium", "Native", 50000, 5000)>>)
r_liquid == Route(<<Hop("ethereum", "sentium", "Liquidity", 80000, 8000)>>)
r_two == Route(<<Hop("ethereum", "solana", "Native", 50000, 5000),
                 Hop("solana", "sentium", "Teleport", 30000, 3000)>>)
r_nohops == Route(<<>>)
r_nokey == [source_chain |-> "ethereum", target_chain |-> "sentium"]

SeqsUpTo(S, n) == UNION {[1..k -> S] : k \in 0..n}

(* every route of at most MaxHops hops over the chains *)
Hops == {Hop(f, t, "Native", 50000, 5000) : f \in Chains, t \in Chains}
AllRoutes == {Route(h) : h \in SeqsUpTo(Hops, MaxHops)}

(* training data: n examples, all r_direct and r_two in turn but the one at
   position bad, which holds badRoute *)
TrainingData(n, bad, badRoute) ==
    [k \in 1..n |-> << IF k = bad THEN badRoute
                       ELSE IF k % 2 = 1 THEN r_direct ELSE r_two,
                       k % 2 >>]

DataLens == {0, 1, batch_size, MaxData}
BadPositions(n) == {0, 1, n, batch_size, batch_size + 1} \cap 0..n

----------------------------------------------------------------------------
(* State after construction, lines 80-94: without a model_path the network
   is freshly initialised and, as every nn.Module, in training mode; with a
   model_path the constructor runs load_model *)

NoFit == [epoch |-> 0, i |-> 0]
Ok(v) == [kind |-> "ok", value |-> v]
Error(e) == [kind |-> "error", error |-> e]
Entry == [mode |-> mode, params |-> params]

Init ==
    /\ \/ /\ mode = "train" /\ params = RandomInit
          /\ checkpoint \in {{}, {Pretrained}}
       \/ /\ mode = "eval" /\ params = Pretrained
          /\ checkpoint = {Pretrained}
    /\ pc = "idle"
    /\ fit = NoFit
    /\ applied = <<>>
    /\ op = "init"
    /\ arg = <<>>
    /\ result = Ok("None")
    /\ calls = 0
    /\ fwd = <<>>
    /\ pre = Entry
    /\ prevScore = <<>>
    /\ lastScore = <<>>

(* what every operation called on the idle object records *)
Called(name, input) ==
    /\ pc = "idle"
    /\ op' = name
    /\ arg' = input
    /\ pre' = Entry
    /\ pc' = "idle"
    /\ fit' = NoFit
    /\ applied' = <<>>
    /\ prevScore' = IF name = "score_route" THEN lastScore ELSE <<>>

----------------------------------------------------------------------------
(* load_model, lines 96-100: torch.load raises when the file is missing *)
LoadModel ==
    /\ Called("load_model", <<>>)
    /\ IF checkpoint = {}
       THEN /\ result' = Error("FileNotFoundError")
            /\ UNCHANGED <<mode, params, lastScore>>
       ELSE /\ params' = CHOOSE p \in checkpoint : TRUE
            /\ mode' = "eval"
            /\ lastScore' = <<>>
            /\ result' = Ok("None")
    /\ calls' = 0
    /\ fwd' = <<>>
    /\ UNCHANGED checkpoint

(* save_model, lines 102-106 *)
SaveModel ==
    /\ Called("save_model", <<>>)
    /\ checkpoint' = {params}
    /\ result' = Ok("None")
    /\ calls' = 0
    /\ fwd' = <<>>
    /\ UNCHANGED <<mode, params, lastScore>>

(* encode_chain, lines 108-129 *)
EncodeChain(chain_name) ==
    /\ Called("encode_chain", chain_name)
    /\ result' = Ok(encode_chain(chain_name))
    /\ calls' = 0
    /\ fwd' = <<>>
    /\ UNCHANGED <<mode, params, checkpoint, lastScore>>

(* create_graph_from_route, lines 131-186 *)
CreateGraph(route) ==
    /\ Called("create_graph_from_route", route)
    /\ result' = IF BuildRaises(route) THEN Error("KeyError")
                 ELSE Ok(create_graph_from_route(route))
    /\ calls' = 0
    /\ fwd' = <<>>
    /\ UNCHANGED <<mode, params, checkpoint, lastScore>>

----------------------------------------------------------------------------
(* score_route, lines 188-207 *)

(* line 196: self.model.eval() *)
ScoreRouteKeepsMode(m) == m

ScoreRouteMode(m) == "eval"

(* lines 199-207 for one route, with the network in mode m *)
ScoreOutcome(route, p, m, mask) ==
    IF BuildRaises(route) THEN Error("KeyError")
    ELSE LET graph == create_graph_from_route(route) IN
         IF ForwardRaises(graph) THEN Error("IndexError")
         ELSE Ok(forward(p, graph, m, mask))

(* line 205 is reached unless the graph builder raised *)
ForwardStarted(route) == ~BuildRaises(route)

ScoreRoute(route) ==
    /\ Called("score_route", route)
    /\ mode' = ScoreRouteMode(mode)
    /\ \E mask \in Masks(mode') :
          LET out == ScoreOutcome(route, params, mode', mask) IN
          /\ result' = out
          /\ lastScore' = IF out.kind = "ok" THEN <<route, out.value>> ELSE lastScore
    /\ calls' = IF ForwardStarted(route) THEN 1 ELSE 0
    /\ fwd' = IF ForwardStarted(route) THEN <<mode'>> ELSE <<>>
    /\ UNCHANGED <<params, checkpoint>>

----------------------------------------------------------------------------
(* optimize_route, lines 209-232 *)

(* line 217 *)
OptimizeNeverRaises(routes) == FALSE

OptimizeRaises(routes) == routes = <<>>

(* line 220 *)
OptimizeNoShortcut(routes) == FALSE

OptimizeShortcut(routes) == Len(routes) = 1

Front(s) == SubSeq(s, 1, Len(s) - 1)
Last(s) == s[Len(s)]

(* list.sort(key=score, reverse=True), line 230: a stable sort, so entries
   of equal score keep their input order *)
InsertDesc(s, e) ==
    LET k == Cardinality({i \in 1..Len(s) : s[i][1] >= e[1]})
    IN SubSeq(s, 1, k) \o <<e>> \o SubSeq(s, k + 1, Len(s))

InsertDescUnstable(s, e) ==
    LET k == Cardinality({i \in 1..Len(s) : s[i][1] > e[1]})
    IN SubSeq(s, 1, k) \o <<e>> \o SubSeq(s, k + 1, Len(s))

RECURSIVE SortUnstable(_)
SortUnstable(scored) ==
    IF scored = <<>> THEN <<>>
    ELSE InsertDescUnstable(SortUnstable(Front(scored)), Last(scored))

RECURSIVE sort_by_score(_)
sort_by_score(scored) ==
    IF scored = <<>> THEN <<>>
    ELSE InsertDesc(sort_by_score(Front(scored)), Last(scored))

OptimizeRoute(routes) ==
    /\ Called("optimize_route", routes)
    /\ IF OptimizeRaises(routes) THEN
          /\ result' = Error("ValueError")
          /\ calls' = 0
          /\ fwd' = <<>>
          /\ UNCHANGED <<mode, lastScore>>
       ELSE IF OptimizeShortcut(routes) THEN
          /\ result' = Ok(routes[1])
          /\ calls' = 0
          /\ fwd' = <<>>
          /\ UNCHANGED <<mode, lastScore>>
       ELSE IF routes = <<>> THEN
          \* reached only without the check of line 217: scored_routes[0]
          /\ result' = Error("IndexError")
          /\ calls' = 0
          /\ fwd' = <<>>
          /\ UNCHANGED <<mode, lastScore>>
       ELSE
          /\ mode' = ScoreRouteMode(mode)
          /\ \E masks \in [1..Len(routes) -> Masks(mode')] :
             \E out \in {[i \in 1..Len(routes) |->
                            ScoreOutcome(routes[i], params, mode', masks[i])]} :
                LET n == Len(routes)
                    failing == {i \in 1..n : out[i].kind = "error"}
                    stop == IF failing = {} THEN n
                            ELSE CHOOSE i \in failing : \A j \in failing : i <= j
                    scored == IF failing = {} THEN n ELSE stop - 1
                    started == {i \in 1..stop : ForwardStarted(routes[i])}
                IN /\ result' =
                        IF failing # {} THEN out[stop]
                        ELSE Ok(sort_by_score(
                                  [i \in 1..n |-> <<out[i].value, routes[i]>>])[1][2])
                   /\ calls' = Cardinality(started)
                   /\ fwd' = [i \in 1..Cardinality(started) |-> mode']
                   /\ lastScore' = IF scored = 0 THEN lastScore
                                   ELSE <<routes[scored], out[scored].value>>
    /\ UNCHANGED <<params, checkpoint>>

----------------------------------------------------------------------------
(* train_step, lines 234-256 *)

(* tensor.squeeze(), line 251: drops every dimension of size 1 *)
squeeze(shape) == SelectSeq(shape, LAMBDA d : d # 1)

(* torch broadcasting of two shapes, as F.mse_loss does for unequal shapes
   (line 254): aligned from the right, two sizes fit when they are equal or
   one of them is 1 *)
RECURSIVE Broadcastable(_, _)
Broadcastable(s, t) ==
    \/ s = <<>>
    \/ t = <<>>
    \/ /\ Last(s) = Last(t) \/ Last(s) = 1 \/ Last(t) = 1
       /\ Broadcastable(Front(s), Front(t))

(* the loss of line 254: raises unless the shapes broadcast *)
mse_loss(predictions, labels) ==
    IF ~Broadcastable(squeeze(<<Len(predictions), 1>>), <<Len(labels)>>)
    THEN Error("RuntimeError")
    ELSE LET n == IF Len(predictions) = 1 THEN Len(labels)
                  ELSE Len(predictions)
             pr(k) == IF Len(predictions) = 1 THEN predictions[1] ELSE predictions[k]
             lb(k) == IF Len(labels) = 1 THEN labels[1] ELSE labels[k]
         IN Ok([elements |-> n,
                squares |-> SumSeq([k \in 1..n |-> (pr(k) - lb(k)) * (pr(k) - lb(k))])])

(* train_step has no backward pass and no optimizer: the parameters stay *)
TrainStepUpdates(p) == AdamStep(p)

TrainStepParams(p) == p

TrainStep(batch_graphs, labels) ==
    /\ Called("train_step", [batch_graphs |-> batch_graphs, labels |-> labels])
    /\ mode' = "train"
    /\ calls' = 1
    /\ fwd' = <<mode'>>
    /\ \E mask \in Masks(mode') :
          result' = mse_loss(
              [g \in 1..Len(batch_graphs) |->
                  forward(params, batch_graphs[g], mode', mask)], labels)
    /\ params' = TrainStepParams(params)
    /\ lastScore' = IF params' = params THEN lastScore ELSE <<>>
    /\ UNCHANGED checkpoint

----------------------------------------------------------------------------
(* train, lines 258-298: one step per minibatch and one per end of epoch *)

NumBatches(n) == (n + batch_size - 1) \div batch_size

(* range(0, len(training_data), batch_size) and the slice of line 274, as
   1-based positions: the slice stops at the end of the list *)
BatchRange(i, n) == [lo |-> i + 1, hi |-> Min(i + batch_size, n)]

(* a minibatch that raises does so in lines 277-289, before optimizer.step()
   of line 291 *)
FailedBatchStepped(p) == AdamStep(p)

FailedBatchParams(p) == p

(* what lines 283-289 can do with the graphs of a minibatch.  A graph
   without nodes alone cannot be processed.  Among graphs with nodes its
   empty tensors may be taken by the collation and the pooling or refused,
   depending on the library: both outcomes are kept. *)
BatchOutcomes(graphs) ==
    LET empty == {k \in 1..Len(graphs) : ForwardRaises(graphs[k])} IN
    IF empty = {} THEN {"ok"}
    ELSE IF empty = 1..Len(graphs) THEN {"RuntimeError"}
    ELSE {"ok", "RuntimeError"}

TrainFailure(e) ==
    [kind |-> "error", error |-> e, epoch |-> fit.epoch, batch |-> fit.i \div batch_size]

TrainBegin(training_data, epochs) ==
    /\ pc = "idle"
    /\ params + epochs * NumBatches(Len(training_data)) <= MaxParam
    /\ op' = "train"
    /\ arg' = [training_data |-> training_data, epochs |-> epochs]
    /\ pre' = Entry
    /\ fit' = NoFit
    /\ applied' = <<>>
    /\ prevScore' = <<>>
    /\ calls' = 0
    /\ fwd' = <<>>
    /\ IF epochs = 0
       THEN pc' = "idle" /\ result' = Ok("None")
       ELSE pc' = "train" /\ result' = Ok("running")
    /\ UNCHANGED <<mode, params, checkpoint, lastScore>>

TrainMinibatch ==
    /\ pc = "train"
    /\ fit.i < Len(arg.training_data)
    /\ LET range == BatchRange(fit.i, Len(arg.training_data))
           batch_data == SubSeq(arg.training_data, range.lo, range.hi)
       IN IF \E k \in 1..Len(batch_data) : BuildRaises(batch_data[k][1])
          THEN /\ result' = TrainFailure("KeyError")
               /\ pc' = "idle"
               /\ params' = FailedBatchParams(params)
               /\ UNCHANGED <<fit, applied, calls, fwd, lastScore>>
          ELSE \E outcome \in BatchOutcomes([k \in 1..Len(batch_data) |->
                                 create_graph_from_route(batch_data[k][1])]) :
                     /\ calls' = calls + 1
                     /\ fwd' = Append(fwd, mode)
                     /\ IF outcome = "ok"
                        THEN /\ params' = AdamStep(params)
                             /\ applied' = Append(applied,
                                   [epoch |-> fit.epoch, lo |-> range.lo, hi |-> range.hi])
                             /\ fit' = [fit EXCEPT !.i = @ + batch_size]
                             /\ lastScore' = <<>>
                             /\ UNCHANGED <<pc, result>>
                        ELSE /\ result' = TrainFailure(outcome)
                             /\ pc' = "idle"
                             /\ params' = FailedBatchParams(params)
                             /\ UNCHANGED <<fit, applied, lastScore>>
    /\ UNCHANGED <<mode, checkpoint, op, arg, pre, prevScore>>

(* line 295 divides by len(training_data) / batch_size, which is 0.0 for
   an empty list *)
TrainEpochEnd ==
    /\ pc = "train"
    /\ fit.i >= Len(arg.training_data)
    /\ IF Len(arg.training_data) = 0
       THEN /\ result' = TrainFailure("ZeroDivisionError")
            /\ pc' = "idle"
            /\ UNCHANGED fit
       ELSE /\ fit' = [epoch |-> fit.epoch + 1, i |-> 0]
            /\ IF fit.epoch + 1 = arg.epochs
               THEN pc' = "idle" /\ result' = Ok("None")
               ELSE UNCHANGED <<pc, result>>
    /\ UNCHANGED <<mode, params, checkpoint, applied, op, arg, calls, fwd, pre, lastScore,
                   prevScore>>

----------------------------------------------------------------------------
(* Specifications *)

(* the whole object: every operation, on a few inputs each *)
FewRoutes == {r_direct, r_two, r_nohops, r_nokey}

Next ==
    \/ LoadModel
    \/ SaveModel
    \/ \E c \in Chains : EncodeChain(c)
    \/ \E r \in FewRoutes : CreateGraph(r)
    \/ \E r \in FewRoutes : ScoreRoute(r)
    \/ \E rs \in {<<>>, <<r_two>>, <<r_direct, r_two>>} : OptimizeRoute(rs)
    \/ \E L \in 1..2 : TrainStep(<<create_graph_from_route(r_two)>>, [k \in 1..L |-> 0])
    \/ \E n \in DataLens, r \in {r_nohops, r_nokey}, e \in 0..MaxEpochs :
          \E bad \in BadPositions(n) : TrainBegin(TrainingData(n, bad, r), e)
    \/ TrainMinibatch
    \/ TrainEpochEnd

Spec == Init /\ [][Next]_vars

(* the graph builder, on every route of at most MaxHops hops *)
NextBuild == \E r \in AllRoutes : CreateGraph(r)

(* an object constructed where a checkpoint file exists, with or without
   the model_path that loads it *)
InitBuild == Init /\ checkpoint = {Pretrained}

SpecBuild == InitBuild /\ [][NextBuild]_vars

(* the selector, on every list of at most MaxCand scorable candidates and
   on the short lists that hold a route the scorer refuses; train_step puts
   the network back into training mode between selections *)
Candidates == {r_direct, r_liquid, r_two}

NextSelect ==
    \/ \E rs \in SeqsUpTo(Candidates, MaxCand) : OptimizeRoute(rs)
    \/ \E rs \in SeqsUpTo(Candidates \cup {r_nohops, r_nokey}, 2) : OptimizeRoute(rs)
    \/ TrainStep(<<create_graph_from_route(r_two)>>, <<0>>)

SpecSelect == Init /\ [][NextSelect]_vars

(* train_step, on every number of graphs and of labels; score_route puts
   the network into inference mode between steps *)
TrainStepInputs ==
    {[batch_graphs |-> [k \in 1..G |-> create_graph_from_route(r)],
      labels |-> [k \in 1..L |-> k % 2]] :
        r \in {r_direct, r_two}, G \in 1..MaxGraphs, L \in 1..MaxLabels}

NextTrainStep ==
    \/ \E in \in TrainStepInputs : TrainStep(in.batch_graphs, in.labels)
    \/ ScoreRoute(r_direct)

SpecTrainStep == Init /\ [][NextTrainStep]_vars

----------------------------------------------------------------------------
(* Properties *)

IsBuild == op = "create_graph_from_route"
IsScore == op = "score_route"
IsOptimize == op = "optimize_route"
IsTrainStep == op = "train_step"
IsTrain == op = "train"

(* the score of a route in inference mode under parameters p *)
InferenceScore(route, p) == forward(p, create_graph_from_route(route), "eval", 0)

Scorable(route) ==
    /\ ~BuildRaises(route)
    /\ ~ForwardRaises(create_graph_from_route(route))

(* C1: for a list of two or more candidates that can all be scored,
   optimize_route returns a candidate of maximal score, and of the
   candidates of maximal score the one that comes first in the list *)
C1_FirstMaximum ==
    (IsOptimize /\ Len(arg) >= 2 /\ \A i \in 1..Len(arg) : Scorable(arg[i])) =>
        /\ result.kind = "ok"
        /\ \E i \in 1..Len(arg) :
              /\ result.value = arg[i]
              /\ \A j \in 1..Len(arg) :
                    InferenceScore(arg[j], params) <= InferenceScore(arg[i], params)
              /\ \A j \in 1..(i - 1) :
                    InferenceScore(arg[j], params) < InferenceScore(arg[i], params)

(* two different candidates share the maximal score, the later one is not
   the last of the list, and the earlier one was returned *)
C1_Witness ==
    /\ IsOptimize /\ Len(arg) = 3 /\ pre.mode = "train"
    /\ arg[1] = r_liquid /\ arg[2] = r_direct /\ arg[3] = r_liquid
    /\ InferenceScore(arg[1], params) = InferenceScore(arg[2], params)
    /\ result = Ok(r_liquid)

(* C2: every forward pass of a minibatch of train runs in training mode *)
C2_TrainRunsInTrainingMode ==
    IsTrain => \A k \in 1..Len(fwd) : fwd[k] = "train"

(* C3: score_route evaluates in inference mode, and a score_route call on
   the route of the previous score_route call, with no parameter change in
   between, returns the same score *)
C3_ScoreDeterministic ==
    IsScore =>
        /\ mode = "eval"
        /\ \A k \in 1..Len(fwd) : fwd[k] = "eval"
        /\ (result.kind = "ok" /\ prevScore # <<>> /\ prevScore[1] = arg)
              => result.value = prevScore[2]

(* the route is scored a second time, the network having been put into
   training mode in between *)
C3_Witness ==
    /\ IsScore /\ result.kind = "ok" /\ pre.mode = "train"
    /\ prevScore # <<>> /\ prevScore[1] = arg
    /\ fwd = <<"eval">>

(* C4: optimize_route on the empty list raises the input error, runs no
   forward pass and leaves the mode flag and the parameters as they were *)
C4_EmptyRaises ==
    (IsOptimize /\ arg = <<>>) =>
        /\ result = Error("ValueError")
        /\ calls = 0
        /\ mode = pre.mode
        /\ params = pre.params

C4_Witness ==
    /\ IsOptimize /\ arg = <<>> /\ result.kind = "error" /\ mode = "train"

(* C5: optimize_route on a single candidate returns it and runs no forward
   pass; the mode flag is what it was before the call *)
C5_SingleCandidate ==
    (IsOptimize /\ Len(arg) = 1) =>
        /\ result = Ok(arg[1])
        /\ calls = 0
        /\ fwd = <<>>
        /\ mode = pre.mode

(* the single candidate is one the scorer would have refused, and the
   network is in training mode *)
C5_Witness ==
    /\ IsOptimize /\ Len(arg) = 1 /\ arg[1] = r_nohops
    /\ result = Ok(r_nohops) /\ mode = "train"

(* C6: the graph builder raises on a route without hops, and so do
   score_route and train on such a route *)
C6_NoHopsRaises ==
    /\ (IsBuild /\ arg = r_nohops) => result.kind = "error"
    /\ (IsScore /\ arg = r_nohops) => result.kind = "error"
    /\ (IsTrain /\ pc = "idle" /\ arg.epochs > 0
          /\ \E k \in 1..Len(arg.training_data) : arg.training_data[k][1] = r_nohops)
          => result.kind = "error"

(* C7: train_step raises whenever the number of graphs differs from the
   number of labels *)
C7_MismatchRaises ==
    (IsTrainStep /\ Len(arg.batch_graphs) # Len(arg.labels)) => result.kind = "error"

(* C8: for a route with hops, the graph has one node per distinct chain,
   the nodes in lexicographic order of the chain names, and one edge per
   hop, in hop order, from the index of its from-chain to the index of its
   to-chain *)
C8_GraphShape ==
    (IsBuild /\ ~BuildRaises(arg) /\ Len(arg.hops) >= 1) =>
        /\ result.kind = "ok"
        /\ LET g == result.value
               hops == arg.hops
               N == Len(g.x)
           IN /\ N = Cardinality(RouteChains(hops))
              /\ Len(g.chains) = N
              /\ {g.chains[n] : n \in 1..N} = RouteChains(hops)
              /\ \A m, n \in 1..N : m < n => StrLess(g.chains[m], g.chains[n])
              /\ Len(g.edge_index) = 2
              /\ Len(g.edge_index[1]) = Len(hops)
              /\ Len(g.edge_index[2]) = Len(hops)
              /\ \A i \in 1..Len(hops) :
                    /\ g.edge_index[1][i] \in 0..(N - 1)
                    /\ g.edge_index[2][i] \in 0..(N - 1)
                    /\ g.chains[g.edge_index[1][i] + 1] = hops[i].from_chain
                    /\ g.chains[g.edge_index[2][i] + 1] = hops[i].to_chain

(* the same hop twice, between two different chains given in descending
   order: two nodes, two edges *)
C8_Witness ==
    /\ IsBuild /\ ~BuildRaises(arg) /\ Len(arg.hops) = 2
    /\ arg.hops[1] = arg.hops[2]
    /\ arg.hops[1].from_chain = "solana" /\ arg.hops[1].to_chain = "sentium"
    /\ result.kind = "ok"
    /\ Len(result.value.x) = 2
    /\ result.value.edge_index = <<(<<1, 1>>), (<<0, 0>>)>>

RECURSIVE Steps(_, _)
Steps(p, k) == IF k = 0 THEN p ELSE AdamStep(Steps(p, k - 1))

(* C9: the parameters are those found at the call's entry after every
   operation but load_model and train, and within train they differ from
   those only by the updates of its minibatches *)
C9_ParamsFrame ==
    /\ op \notin {"train", "load_model", "init"} => params = pre.params
    /\ IsTrain => params = Steps(pre.params, Len(applied))

(* train_step has run on trained parameters and returned a loss *)
C9_Witness ==
    /\ IsTrainStep /\ result.kind = "ok" /\ params = AdamStep(AdamStep(RandomInit))
    /\ pre.mode = "eval"

(* C10: when a minibatch of train raises, the call ends, the updates applied
   are exactly those of the minibatches before it, one per minibatch of up
   to batch_size examples in input order, epoch after epoch, and the
   parameters are the entry parameters after those updates *)
C10_NoRollback ==
    (IsTrain /\ result.kind = "error" /\ Len(arg.training_data) > 0) =>
        LET n == Len(arg.training_data)
            nb == NumBatches(n)
            done == result.epoch * nb + result.batch
        IN /\ pc = "idle"
           /\ Len(applied) = done
           /\ \A j \in 1..done :
                 /\ applied[j].epoch = (j - 1) \div nb
                 /\ applied[j].lo = batch_size * ((j - 1) % nb) + 1
                 /\ applied[j].hi = Min(batch_size * ((j - 1) % nb) + batch_size, n)
           /\ \E k \in (batch_size * result.batch + 1)..Min(batch_size * result.batch + batch_size, n) :
                 ~Scorable(arg.training_data[k][1])
           /\ params = Steps(pre.params, done)

(* the second minibatch of the first epoch raised, after the update of the
   first *)
C10_Witness ==
    /\ IsTrain /\ result.kind = "error" /\ result.error = "KeyError"
    /\ result.epoch = 0 /\ result.batch = 1
    /\ Len(applied) = 1 /\ applied[1].hi = batch_size
    /\ params = AdamStep(pre.params)

(* the first minibatch of the second epoch raised, after the two updates
   of the first epoch *)
C10_LaterEpoch ==
    /\ IsTrain /\ result.kind = "error" /\ result.epoch = 1 /\ result.batch = 0
    /\ Len(applied) = 2 /\ applied[2].lo = batch_size + 1
    /\ params = AdamStep(AdamStep(pre.params))

====
